---------------------------- MODULE Spec2Model ----------------------------
(***************************************************************************)
(* Model of the MeshMind backend (Steel_works_hackathon_2026):             *)
(*   backend/rag_engine.py     grade normalizer, keyword extractor,        *)
(*                             context assembler                           *)
(*   backend/pdf_generator.py  document composer, save_pdf                 *)
(*   backend/groq_client.py    content generation adapter                  *)
(*   backend/main.py           the generate-pdf request pipeline           *)
(*                                                                         *)
(* A Python str is modelled as a sequence of one-character strings, so     *)
(* that lower(), strip(), replace(), split(), title(), int() and the `in`  *)
(* substring test are computed as Python computes them.  Characters that   *)
(* are not ASCII are written as a named token ("BULLET", "EMOJI_KEY").     *)
(* A Python dict is a function whose DOMAIN is the set of keys present.    *)
(***************************************************************************)
EXTENDS Integers, Sequences, FiniteSets, TLC

VARIABLES
    gradeIn,      \* normalize_grade: the grade string passed in
    gradeOut,     \* normalize_grade: results of successive applications
    kwPrompt,     \* extract_keywords: the prompt passed in
    kwResult,     \* extract_keywords: the list returned
    kwPc,         \* extract_keywords: "start" before the call, "done" after
    curriculumFiles, \* curriculum/: lower-cased subject -> parsed <subject>_curriculum.json
    ctxSubject,   \* context assembler: the subject passed in
    ctxGrade,     \* context assembler: the grade passed in
    ctxPrompt,    \* context assembler: the prompt passed to get_augmented_context
    ctxKeywords,  \* context assembler: topic_keywords received by get_curriculum_context
    ctxOut,       \* context assembler: the context string returned
    ctxPc,        \* context assembler: "start" before the call, "done" after
    docContent,   \* composer: the content dict passed to generate_pdf
    docInclude,   \* composer: include_answers
    docLanguage,  \* composer: the language keyword of the call, <<>> when none is passed
    docOut,       \* composer: the bytes returned, <<>> before the call and on an exception
    docPc,        \* composer: "start", then "done" (returned) or "raised"
    storage,      \* PDF_STORAGE_DIR: file name -> bytes written
    request,      \* the last GeneratePDFRequest handled
    generated,    \* the content the generation adapter returned for it
    calls,        \* the pipeline stages the handler called, in order
    response,     \* the handler's answer: status code and body or detail
    genArgs,      \* adapter: the arguments generate_educational_content is called with
    genRequests,  \* adapter: the requests sent to the model during the call
    genOut,       \* adapter: the dict returned
    genPc         \* adapter: "start" before the call, "done" after

gradeVars == <<gradeIn, gradeOut>>

kwVars == <<kwPrompt, kwResult, kwPc>>

ctxVars ==
    <<curriculumFiles, ctxSubject, ctxGrade, ctxPrompt, ctxKeywords, ctxOut, ctxPc>>

docVars == <<docContent, docInclude, docLanguage, docOut, docPc>>

pipeVars == <<storage, request, generated, calls, response>>

genVars == <<genArgs, genRequests, genOut, genPc>>

vars == <<gradeVars, kwVars, ctxVars, docVars, pipeVars, genVars>>

\* the variables of a component no call of which is in progress
GradeIdle == gradeIn = <<>> /\ gradeOut = <<>>

KwIdle == kwPrompt = <<>> /\ kwResult = <<>> /\ kwPc = "idle"

CtxIdle ==
    /\ curriculumFiles = <<>> /\ ctxSubject = <<>> /\ ctxGrade = <<>>
    /\ ctxPrompt = <<>> /\ ctxKeywords = <<>> /\ ctxOut = <<>> /\ ctxPc = "idle"

DocIdle ==
    /\ docContent = <<>> /\ docInclude = FALSE /\ docLanguage = <<>> /\ docOut = <<>>
    /\ docPc = "idle"

GenIdle == genArgs = <<>> /\ genRequests = <<>> /\ genOut = <<>> /\ genPc = "idle"

PipeIdle ==
    /\ storage = <<>> /\ request = <<>> /\ generated = <<>> /\ calls = <<>>
    /\ response = <<>>

(***************************************************************************)
(* Bounds of the model.                                                    *)
(***************************************************************************)
MaxGradeLen == 4      \* longest enumerated grade string
MaxPromptLen == 4     \* longest enumerated prompt
MaxTopics == 2        \* most topics in an enumerated grade entry
MaxExplLen == 3       \* longest enumerated explanation text
MaxFiles == 2         \* requests are taken while the store holds fewer files

(***************************************************************************)
(* Python str primitives (ASCII).                                          *)
(***************************************************************************)
NL == "\n"

LOWER ==
    <<"a","b","c","d","e","f","g","h","i","j","k","l","m",
      "n","o","p","q","r","s","t","u","v","w","x","y","z">>

UPPER ==
    <<"A","B","C","D","E","F","G","H","I","J","K","L","M",
      "N","O","P","Q","R","S","T","U","V","W","X","Y","Z">>

DIGITS == <<"0","1","2","3","4","5","6","7","8","9">>

WHITESPACE == {" ", "\n", "\t", "\r", "\f"}

IsLowerCh(c) == \E i \in 1..Len(LOWER) : LOWER[i] = c

IsUpperCh(c) == \E i \in 1..Len(UPPER) : UPPER[i] = c

IsCased(c) == IsLowerCh(c) \/ IsUpperCh(c)

IsDigit(c) == \E i \in 1..Len(DIGITS) : DIGITS[i] = c

IsAlnum(c) == IsCased(c) \/ IsDigit(c)

LowerCh(c) ==
    IF IsUpperCh(c) THEN LOWER[CHOOSE i \in 1..Len(UPPER) : UPPER[i] = c] ELSE c

UpperCh(c) ==
    IF IsLowerCh(c) THEN UPPER[CHOOSE i \in 1..Len(LOWER) : LOWER[i] = c] ELSE c

\* str.lower()
Lower(s) == [i \in 1..Len(s) |-> LowerCh(s[i])]

\* str.upper()
Upper(s) == [i \in 1..Len(s) |-> UpperCh(s[i])]

\* str.title(): a cased character is upper-cased when the character before it
\* is not cased, and lower-cased otherwise
Title(s) ==
    [i \in 1..Len(s) |->
        IF i > 1 /\ IsCased(s[i-1]) THEN LowerCh(s[i]) ELSE UpperCh(s[i])]

RECURSIVE LStrip(_)
LStrip(s) ==
    IF s # <<>> /\ s[1] \in WHITESPACE THEN LStrip(Tail(s)) ELSE s

RECURSIVE RStrip(_)
RStrip(s) ==
    IF s # <<>> /\ s[Len(s)] \in WHITESPACE
    THEN RStrip(SubSeq(s, 1, Len(s) - 1))
    ELSE s

\* str.strip()
Strip(s) == RStrip(LStrip(s))

\* s.startswith(p)
StartsWith(s, p) == Len(p) <= Len(s) /\ SubSeq(s, 1, Len(p)) = p

\* s.endswith(p)
EndsWith(s, p) ==
    Len(p) <= Len(s) /\ SubSeq(s, Len(s) - Len(p) + 1, Len(s)) = p

\* s.find(sub) + 1: the first position at which sub occurs in s, 0 if none
Find(s, sub) ==
    LET at == {i \in 1..(Len(s) - Len(sub) + 1) :
                  SubSeq(s, i, i + Len(sub) - 1) = sub}
    IN  IF at = {} THEN 0 ELSE CHOOSE i \in at : \A j \in at : i <= j

\* sub in s
Contains(s, sub) == sub = <<>> \/ Find(s, sub) > 0

\* s.replace(old, new), old non-empty: leftmost occurrences, not overlapping
RECURSIVE Replace(_, _, _)
Replace(s, old, new) ==
    LET i == Find(s, old)
    IN  IF i = 0
        THEN s
        ELSE SubSeq(s, 1, i - 1) \o new
                \o Replace(SubSeq(s, i + Len(old), Len(s)), old, new)

\* s.split(): the maximal runs of characters that are not whitespace
RECURSIVE SplitWs(_)
SplitWs(s) ==
    LET t == LStrip(s)
        ws == {i \in 1..Len(t) : t[i] \in WHITESPACE}
        n == IF ws = {} THEN Len(t) + 1 ELSE CHOOSE i \in ws : \A j \in ws : i <= j
    IN  IF t = <<>>
        THEN <<>>
        ELSE <<SubSeq(t, 1, n - 1)>> \o SplitWs(SubSeq(t, n, Len(t)))

\* s.split(sep), sep non-empty
RECURSIVE SplitOn(_, _)
SplitOn(s, sep) ==
    LET i == Find(s, sep)
    IN  IF i = 0
        THEN <<s>>
        ELSE <<SubSeq(s, 1, i - 1)>> \o SplitOn(SubSeq(s, i + Len(sep), Len(s)), sep)

\* s[:n]
Take(s, n) == SubSeq(s, 1, IF Len(s) < n THEN Len(s) ELSE n)

\* sep.join(parts)
RECURSIVE Join(_, _)
Join(parts, sep) ==
    IF parts = <<>> THEN <<>>
    ELSE IF Len(parts) = 1 THEN parts[1]
    ELSE parts[1] \o sep \o Join(Tail(parts), sep)

DigitVal(c) == (CHOOSE i \in 1..Len(DIGITS) : DIGITS[i] = c) - 1

RECURSIVE DigitsVal(_)
DigitsVal(ds) ==
    IF ds = <<>> THEN 0
    ELSE 10 * DigitsVal(SubSeq(ds, 1, Len(ds) - 1)) + DigitVal(ds[Len(ds)])

\* int(s): surrounding whitespace, an optional sign, then decimal digits which
\* single underscores may separate; anything else raises ValueError (ok = FALSE)
ParseInt(s) ==
    LET t == Strip(s)
        signed == t # <<>> /\ t[1] \in {"+", "-"}
        body == IF signed THEN Tail(t) ELSE t
        wellFormed ==
            /\ body # <<>>
            /\ IsDigit(body[1]) /\ IsDigit(body[Len(body)])
            /\ \A i \in 1..Len(body) : IsDigit(body[i]) \/ body[i] = "_"
            /\ \A i \in 1..(Len(body) - 1) : ~(body[i] = "_" /\ body[i+1] = "_")
        mag == DigitsVal(SelectSeq(body, IsDigit))
    IN  IF wellFormed
        THEN [ok |-> TRUE, val |-> IF signed /\ t[1] = "-" THEN 0 - mag ELSE mag]
        ELSE [ok |-> FALSE, val |-> 0]

RECURSIVE NatToStr(_)
NatToStr(n) ==
    IF n < 10 THEN <<DIGITS[n + 1]>>
    ELSE NatToStr(n \div 10) \o <<DIGITS[(n % 10) + 1]>>

\* str(n) for an int n
IntToStr(n) == IF n < 0 THEN <<"-">> \o NatToStr(0 - n) ELSE NatToStr(n)

\* every string over alphabet A of length at most n
StringsUpTo(A, n) == UNION {[1..k -> A] : k \in 0..n}

(***************************************************************************)
(* rag_engine.py: normalize_grade                                          *)
(***************************************************************************)
sK == <<"K">>
sk == <<"k">>
sKindergarten == <<"k","i","n","d","e","r","g","a","r","t","e","n">>
sAlgebra1 == <<"A","l","g","e","b","r","a"," ","1">>
salgebra_1 == <<"a","l","g","e","b","r","a"," ","1">>
salgebra1 == <<"a","l","g","e","b","r","a","1">>
salgebra == <<"a","l","g","e","b","r","a">>
sgrade == <<"g","r","a","d","e">>
sth == <<"t","h">>
srd == <<"r","d">>
snd == <<"n","d">>
sst == <<"s","t">>

\* line 37: the chain of replace() calls and the strip() handed to int()
GradeRemainder(g) ==
    Strip(Replace(Replace(Replace(Replace(Replace(g,
        sgrade, <<>>), sth, <<>>), srd, <<>>), snd, <<>>), sst, <<>>))

\* a fallback that title-cases the cleaned remainder instead of the grade
normalize_grade_TitleOfRemainder(grade) ==
    LET g == Lower(Strip(grade))
        n == ParseInt(GradeRemainder(g))
    IN  IF g \in {sk, sKindergarten} THEN sK
        ELSE IF g \in {salgebra_1, salgebra1, salgebra} THEN sAlgebra1
        ELSE IF n.ok THEN IntToStr(n.val)
        ELSE Title(GradeRemainder(g))

\* special cases tested before the grade is lower-cased, and the fallback
\* returning the grade as it is
normalize_grade_NoLower(grade) ==
    LET g == Strip(grade)
        n == ParseInt(GradeRemainder(Lower(g)))
    IN  IF g \in {sk, sKindergarten} THEN sK
        ELSE IF g \in {salgebra_1, salgebra1, salgebra} THEN sAlgebra1
        ELSE IF n.ok THEN IntToStr(n.val)
        ELSE g

normalize_grade(grade) ==
    LET g == Lower(Strip(grade))
        n == ParseInt(GradeRemainder(g))
    IN  IF g \in {sk, sKindergarten} THEN sK
        ELSE IF g \in {salgebra_1, salgebra1, salgebra} THEN sAlgebra1
        ELSE IF n.ok THEN IntToStr(n.val)
        ELSE Title(g)

(***************************************************************************)
(* rag_engine.py: extract_keywords                                         *)
(***************************************************************************)
common_words ==
    { <<"f","o","r">>,
      <<"t","h","e">>,
      <<"a","n","d">>,
      <<"w","i","t","h">>,
      <<"t","o">>,
      <<"a">>,
      <<"a","n">>,
      <<"i","n">>,
      <<"o","n">>,
      <<"o","f">>,
      <<"g","r","a","d","e">>,
      <<"p","r","a","c","t","i","c","e">>,
      <<"w","o","r","k","s","h","e","e","t">>,
      <<"p","r","o","b","l","e","m","s">>,
      <<"q","u","e","s","t","i","o","n","s">>,
      <<"h","e","l","p">>,
      <<"l","e","a","r","n">>,
      <<"s","t","u","d","y">>,
      <<"b","a","s","i","c">>,
      <<"a","d","v","a","n","c","e","d">>,
      <<"s","i","m","p","l","e">>,
      <<"h","a","r","d">>,
      <<"e","a","s","y">> }

\* line 107: prompt.lower().replace(',', ' ').replace('.', ' ').split()
PromptWords(prompt) ==
    SplitWs(Replace(Replace(Lower(prompt), <<",">>, <<" ">>), <<".">>, <<" ">>))

\* line 108 with the length test off by one: len(w) >= 2
IsKeyword_AtLeast2(w) == w \notin common_words /\ Len(w) >= 2

\* line 108: w not in common_words and len(w) > 2
IsKeyword(w) == w \notin common_words /\ Len(w) > 2

extract_keywords(prompt) == SelectSeq(PromptWords(prompt), IsKeyword)


(***************************************************************************)
(* rag_engine.py: load_curriculum, get_curriculum_context,                 *)
(* get_augmented_context                                                   *)
(***************************************************************************)
\* {}: the dict with no key
EmptyDict == <<>>

\* `not d` for a dict d
IsEmptyDict(d) == DOMAIN d = {}

\* d.get(k, default)
DictGet(d, k, default) == IF k \in DOMAIN d THEN d[k] ELSE default

sGRADE_ == <<"G","R","A","D","E"," ">>
s_OVERVIEW_NL == <<" ","O","V","E","R","V","I","E","W",":","\n">>
sKEY_TOPICS_NL == <<"K","E","Y"," ","T","O","P","I","C","S",":","\n">>
sDash == <<"-"," ">>
\* two spaces, the three characters the source file holds for its bullet, a space
sStandardIndent == <<" "," ","A_CIRCUMFLEX","EURO_SIGN","CENT_SIGN"," ">>
sVOCABULARY_LEVEL == <<"V","O","C","A","B","U","L","A","R","Y"," ","L","E","V","E","L",":"," ">>
sDIFFICULTY_GUIDELINES_NL ==
    <<"D","I","F","F","I","C","U","L","T","Y"," ","G","U","I","D","E","L","I","N","E","S",":",
      "\n">>
sUseAgeAppropriate ==
    <<"U","s","e"," ","a","g","e","-","a","p","p","r","o","p","r","i","a","t","e"," ">>
s_content_for_grade ==
    <<" ","c","o","n","t","e","n","t"," ","f","o","r"," ","g","r","a","d","e"," ">>

\* the file <subject.lower()>_curriculum.json parsed, {} when there is no such file
load_curriculum(subject) == DictGet(curriculumFiles, Lower(subject), EmptyDict)

\* line 64 naming the normalized grade instead of the grade passed in
FallbackContext_Normalized(subject, grade) ==
    sUseAgeAppropriate \o subject \o s_content_for_grade \o normalize_grade(grade) \o <<".">>

\* line 64
FallbackContext(subject, grade) ==
    sUseAgeAppropriate \o subject \o s_content_for_grade \o grade \o <<".">>

\* lines 79-81 with the topic name not lower-cased
TopicKept_NameAsIs(topic_name, topic_keywords) ==
    \/ topic_keywords = <<>>
    \/ \E i \in 1..Len(topic_keywords) : Contains(topic_name, Lower(topic_keywords[i]))

\* lines 79-81: the topic is skipped when keywords are given and none of them
\* is in the topic's name
TopicKept(topic_name, topic_keywords) ==
    \/ topic_keywords = <<>>
    \/ \E i \in 1..Len(topic_keywords) :
           Contains(Lower(topic_name), Lower(topic_keywords[i]))

\* lines 85-86: one line per standard
RECURSIVE StandardsText(_)
StandardsText(standards) ==
    IF standards = <<>> THEN <<>>
    ELSE sStandardIndent \o standards[1] \o <<NL>> \o StandardsText(Tail(standards))

\* lines 83-86 with every standard of the topic rendered
TopicText_NoCap(topic) ==
    sDash \o DictGet(topic, "name", <<>>) \o <<NL>>
        \o (IF "standards" \in DOMAIN topic
            THEN StandardsText(topic["standards"])
            ELSE <<>>)

\* lines 83-86: the bullet line of a topic and its first 3 standards
TopicText(topic) ==
    sDash \o DictGet(topic, "name", <<>>) \o <<NL>>
        \o (IF "standards" \in DOMAIN topic
            THEN StandardsText(Take(topic["standards"], 3))
            ELSE <<>>)

\* lines 76-86: the loop over grade_data["topics"]
RECURSIVE TopicsLoop(_, _)
TopicsLoop(topics, topic_keywords) ==
    IF topics = <<>> THEN <<>>
    ELSE (IF TopicKept(DictGet(topics[1], "name", <<>>), topic_keywords)
          THEN TopicText(topics[1])
          ELSE <<>>)
         \o TopicsLoop(Tail(topics), topic_keywords)

\* lines 67-95: context_parts
ContextParts(grade_data, normalized_grade, topic_keywords) ==
    (IF "overview" \in DOMAIN grade_data
     THEN <<sGRADE_ \o normalized_grade \o s_OVERVIEW_NL \o grade_data["overview"]>>
     ELSE <<>>)
    \o
    (IF "topics" \in DOMAIN grade_data
     THEN <<sKEY_TOPICS_NL \o TopicsLoop(grade_data["topics"], topic_keywords)>>
     ELSE <<>>)
    \o
    (IF "vocabulary_level" \in DOMAIN grade_data
     THEN <<sVOCABULARY_LEVEL \o grade_data["vocabulary_level"]>>
     ELSE <<>>)
    \o
    (IF "difficulty_guidelines" \in DOMAIN grade_data
     THEN <<sDIFFICULTY_GUIDELINES_NL \o grade_data["difficulty_guidelines"]>>
     ELSE <<>>)

\* line 97
JoinContext(context_parts) == Join(context_parts, <<NL, NL>>)

\* topic_keywords is None or a list; None and [] are both written <<>>, the
\* only test made of it (line 79) being its truth value
get_curriculum_context(subject, grade, topic_keywords) ==
    LET curriculum == load_curriculum(subject)
        normalized_grade == normalize_grade(grade)
        grade_data ==
            DictGet(DictGet(curriculum, "grades", EmptyDict), normalized_grade, EmptyDict)
    IN  IF IsEmptyDict(curriculum) THEN <<>>
        ELSE IF IsEmptyDict(grade_data) THEN FallbackContext(subject, grade)
        ELSE JoinContext(ContextParts(grade_data, normalized_grade, topic_keywords))

\* lines 125-126: the keywords handed on, None when there are none
AugmentedKeywords(prompt) == extract_keywords(prompt)

get_augmented_context(prompt, subject, grade) ==
    get_curriculum_context(subject, grade, AugmentedKeywords(prompt))


(***************************************************************************)
(* pdf_generator.py: generate_pdf.  The story handed to doc.build is a     *)
(* sequence of flowables; the bytes returned are the file signature        *)
(* followed by the flowables laid out.                                     *)
(***************************************************************************)
sWorksheetGrade == <<" ","W","o","r","k","s","h","e","e","t"," ","-"," ","G","r","a","d","e"," ">>
sMetaOpen ==
    <<"<","f","o","n","t"," ","c","o","l","o","r","=","'","#","6","B","7","2","8","0","'",">",
      "S","u","b","j","e","c","t",":"," ">>
sMetaGrade == <<" ","|"," ","G","r","a","d","e",":"," ">>
sMetaGenerated == <<" ","|"," ","G","e","n","e","r","a","t","e","d",":"," ">>
sFontClose == <<"<","/","f","o","n","t",">">>
sConceptExplanation ==
    <<"EMOJI_BOOK"," ","C","o","n","c","e","p","t"," ","E","x","p","l","a","n","a","t","i","o",
      "n">>
sWorkedExamples ==
    <<"EMOJI_PENCIL"," ","W","o","r","k","e","d"," ","E","x","a","m","p","l","e","s">>
sExample_ == <<"E","x","a","m","p","l","e"," ">>
sProblemLabel == <<"<","b",">","P","r","o","b","l","e","m",":","<","/","b",">"," ">>
sSolutionLabel ==
    <<"<","b",">","S","o","l","u","t","i","o","n",":","<","/","b",">","<","b","r","/",">">>
sBr == <<"<","b","r","/",">">>
sPracticeQuestions ==
    <<"EMOJI_MEMO"," ","P","r","a","c","t","i","c","e"," ","Q","u","e","s","t","i","o","n","s">>
sBoldOpen == <<"<","b",">">>
sBoldCloseDot == <<".","<","/","b",">"," ">>
sFontColorOpen == <<" ","<","f","o","n","t"," ","c","o","l","o","r","=","'">>
sFontColorMid == <<"'",">","[">>
sFontColorClose == <<"]","<","/","f","o","n","t",">">>
sAnswerKey == <<"EMOJI_KEY"," ","A","n","s","w","e","r"," ","K","e","y">>
sTeacherReference ==
    <<"<","i",">","F","o","r"," ","t","e","a","c","h","e","r","/","t","u","t","o","r"," ","r",
      "e","f","e","r","e","n","c","e","<","/","i",">">>
seasy == <<"e","a","s","y">>
smedium == <<"m","e","d","i","u","m">>
shard == <<"h","a","r","d">>
sColorEasy == <<"#","1","0","B","9","8","1">>
sColorMedium == <<"#","F","5","9","E","0","B">>
sColorHard == <<"#","E","F","4","4","4","4">>
sColorOther == <<"#","6","B","7","2","8","0">>

\* the flowables of reportlab.platypus the story is made of
Paragraph(text, style) ==
    [kind |-> "Paragraph", text |-> text, style |-> style, height |-> 0]

Spacer(height) == [kind |-> "Spacer", text |-> <<>>, style |-> "", height |-> height]

PageBreak == [kind |-> "PageBreak", text |-> <<>>, style |-> "", height |-> 0]

\* content.get(key) as a condition: the key is present and its value, a str
\* or a list, is not empty
Truthy(content, key) == key \in DOMAIN content /\ content[key] # <<>>

\* lines 133-141: title, metadata line, spacer
TitleBlock(content, subject, grade, date_str) ==
    << Paragraph(DictGet(content, "title", Title(subject) \o sWorksheetGrade \o grade),
                 "PDFTitle"),
       Paragraph(sMetaOpen \o Title(subject) \o sMetaGrade \o grade
                     \o sMetaGenerated \o date_str \o sFontClose,
                 "CustomBodyText"),
       Spacer(20) >>

\* lines 148-150: one paragraph per piece that is not blank
RECURSIVE ExplanationParagraphs(_)
ExplanationParagraphs(paras) ==
    IF paras = <<>> THEN <<>>
    ELSE (IF Strip(paras[1]) # <<>>
          THEN <<Paragraph(Strip(paras[1]), "CustomBodyText")>>
          ELSE <<>>)
         \o ExplanationParagraphs(Tail(paras))

\* lines 144-151
ExplanationSection(content) ==
    IF Truthy(content, "explanation")
    THEN <<Paragraph(sConceptExplanation, "SectionHeader")>>
            \o ExplanationParagraphs(SplitOn(content["explanation"], <<NL, NL>>))
            \o <<Spacer(15)>>
    ELSE <<>>

\* lines 156-166: the examples from number i on
RECURSIVE ExamplesLoop(_, _)
ExamplesLoop(examples, i) ==
    IF examples = <<>> THEN <<>>
    ELSE << Paragraph(sExample_ \o IntToStr(i), "Subsection"),
            Paragraph(sProblemLabel \o DictGet(examples[1], "problem", <<>>),
                      "CustomBodyText"),
            Paragraph(sSolutionLabel
                          \o Replace(DictGet(examples[1], "solution", <<>>), <<NL>>, sBr),
                      "CustomBodyText"),
            Spacer(10) >>
         \o ExamplesLoop(Tail(examples), i + 1)

\* lines 154-167
WorkedExamplesSection(content) ==
    IF Truthy(content, "worked_examples")
    THEN <<Paragraph(sWorkedExamples, "SectionHeader")>>
            \o ExamplesLoop(content["worked_examples"], 1)
            \o <<Spacer(15)>>
    ELSE <<>>

\* line 182 looking the difficulty up as written
DifficultyColor_NoLower(difficulty) ==
    IF difficulty = seasy THEN sColorEasy
    ELSE IF difficulty = smedium THEN sColorMedium
    ELSE IF difficulty = shard THEN sColorHard
    ELSE sColorOther

\* lines 177-182: difficulty_colors.get(difficulty.lower(), '#6B7280')
DifficultyColor(difficulty) ==
    LET d == Lower(difficulty)
    IN  IF d = seasy THEN sColorEasy
        ELSE IF d = smedium THEN sColorMedium
        ELSE IF d = shard THEN sColorHard
        ELSE sColorOther

\* lines 172-188: the questions from number i on
RECURSIVE QuestionsLoop(_, _)
QuestionsLoop(questions, i) ==
    IF questions = <<>> THEN <<>>
    ELSE LET question == DictGet(questions[1], "question", <<>>)
             difficulty == DictGet(questions[1], "difficulty", smedium)
         IN  << Paragraph(sBoldOpen \o IntToStr(i) \o sBoldCloseDot \o question
                              \o sFontColorOpen \o DifficultyColor(difficulty)
                              \o sFontColorMid \o Upper(difficulty) \o sFontColorClose,
                          "Question"),
                Spacer(30) >>
             \o QuestionsLoop(Tail(questions), i + 1)

\* lines 170-189
PracticeQuestionsSection(content) ==
    IF Truthy(content, "practice_questions")
    THEN <<Paragraph(sPracticeQuestions, "SectionHeader")>>
            \o QuestionsLoop(content["practice_questions"], 1)
            \o <<Spacer(20)>>
    ELSE <<>>

\* lines 198-199: the answers from number i on
RECURSIVE AnswersLoop(_, _)
AnswersLoop(answers, i) ==
    IF answers = <<>> THEN <<>>
    ELSE <<Paragraph(sBoldOpen \o IntToStr(i) \o sBoldCloseDot \o answers[1],
                     "CustomBodyText")>>
         \o AnswersLoop(Tail(answers), i + 1)

\* line 192 asking for practice questions as well
AnswerKeyWanted_NeedsQuestions(content, include_answers) ==
    include_answers /\ Truthy(content, "answer_key") /\ Truthy(content, "practice_questions")

\* line 192
AnswerKeyWanted(content, include_answers) ==
    include_answers /\ Truthy(content, "answer_key")

\* lines 192-199
AnswerKeySection(content, include_answers) ==
    IF AnswerKeyWanted(content, include_answers)
    THEN << PageBreak,
            Paragraph(sAnswerKey, "SectionHeader"),
            Paragraph(sTeacherReference, "Answer"),
            Spacer(10) >>
         \o AnswersLoop(content["answer_key"], 1)
    ELSE <<>>

\* lines 131-199: elements; date_str is datetime.now() formatted
Elements(content, subject, grade, include_answers, date_str) ==
    TitleBlock(content, subject, grade, date_str)
        \o ExplanationSection(content)
        \o WorkedExamplesSection(content)
        \o PracticeQuestionsSection(content)
        \o AnswerKeySection(content, include_answers)

\* lines 202-206: doc.build(elements) writes the document into the buffer
DocBuild(elements) == <<[kind |-> "Signature", text |-> <<"%","P","D","F">>,
                         style |-> "", height |-> 0]>> \o elements

\* line 107: the parameters generate_pdf declares
generate_pdf_parameters == {"content", "subject", "grade", "include_answers"}

generate_pdf(content, subject, grade, include_answers, date_str) ==
    DocBuild(Elements(content, subject, grade, include_answers, date_str))


(***************************************************************************)
(* Specification of the grade normalizer: a grade string is drawn, then    *)
(* normalize_grade is applied to it and once more to its own result.       *)
(***************************************************************************)
GradeAlphabet == {"4", "t", "h", "r", "d", "k", "K", " "}

s4thGrade == <<"4","t","h"," ","G","r","a","d","e">>
s4 == <<"4">>

GradeExamples ==
    { s4thGrade, s4, sK, sk, sAlgebra1, salgebra1, salgebra,
      <<"K","i","n","d","e","r","g","a","r","t","e","n">>,
      <<" ","A","L","G","E","B","R","A"," ","1"," ">>,
      <<"G","r","a","d","e"," ","1","2">>,
      <<"1","s","t">>, <<"2","n","d">>, <<"3","r","d">>, <<"1","1","t","h">>,
      <<"-","4">>, <<"+","4">>, <<"0","0","7">>, <<"1","_","0">>,
      <<"f","i","r","s","t">>, <<"P","r","e","-","K">>,
      <<"a","l","g","e","b","r","a"," ","2">>,
      <<"h","O","N","O","R","S"," ","m","a","t","h">> }

GradeInputs == StringsUpTo(GradeAlphabet, MaxGradeLen) \cup GradeExamples

GradeInit ==
    /\ gradeIn \in GradeInputs
    /\ gradeOut = <<>>
    /\ KwIdle /\ CtxIdle /\ DocIdle /\ PipeIdle /\ GenIdle

\* normalize_grade(grade)
Normalize ==
    /\ gradeOut = <<>>
    /\ gradeOut' = <<normalize_grade(gradeIn)>>
    /\ UNCHANGED <<gradeIn, kwVars, ctxVars, docVars, pipeVars, genVars>>

\* normalize_grade applied to a canonical grade it returned
Renormalize ==
    /\ Len(gradeOut) = 1
    /\ gradeOut' = Append(gradeOut, normalize_grade(gradeOut[1]))
    /\ UNCHANGED <<gradeIn, kwVars, ctxVars, docVars, pipeVars, genVars>>

GradeNext == Normalize \/ Renormalize

SpecGrade == GradeInit /\ [][GradeNext]_vars

(***************************************************************************)
(* C8: grade normalization is idempotent: normalizing a grade that          *)
(* normalize_grade returned gives that grade back, whichever branch ("K",  *)
(* "Algebra 1", numeric, title-cased fallback) produced it.                *)
(***************************************************************************)
C8_NormalizeIdempotent ==
    Len(gradeOut) = 2 => gradeOut[2] = gradeOut[1]

\* reached: each of the four kinds of output has been normalized again
C8_Witness ==
    /\ Len(gradeOut) = 2
    /\ gradeIn = <<"h","O","N","O","R","S"," ","m","a","t","h">>
    /\ gradeOut[1] = <<"H","o","n","o","r","s"," ","M","a","t","h">>
    /\ gradeOut[2] = gradeOut[1]

(***************************************************************************)
(* C9: normalize_grade follows the ordered rules and always returns a      *)
(* string: on the trimmed, lower-cased input, "k"/"kindergarten" give "K"; *)
(* "algebra 1"/"algebra1"/"algebra" give "Algebra 1"; otherwise, with the  *)
(* word "grade" and the ordinal suffixes th, rd, nd, st removed, a         *)
(* remainder that parses as an integer gives its decimal string; otherwise *)
(* the result is the trimmed input, title-cased.                           *)
(***************************************************************************)
C9_NormalizeRules ==
    Len(gradeOut) >= 1 =>
        LET out == gradeOut[1]
            trimmed == Strip(gradeIn)
            t == Lower(trimmed)
            isK == t = sk \/ t = sKindergarten
            isAlgebra == t = salgebra_1 \/ t = salgebra1 \/ t = salgebra
            n == ParseInt(GradeRemainder(t))
        IN  /\ isK => out = sK
            /\ ~isK /\ isAlgebra => out = sAlgebra1
            /\ ~isK /\ ~isAlgebra /\ n.ok => out = IntToStr(n.val)
            /\ ~isK /\ ~isAlgebra /\ ~n.ok => out = Title(trimmed)
            /\ gradeIn \in {s4thGrade, s4} => out = s4
            /\ out \in Seq(STRING)

\* reached: "4th Grade" has been normalized to "4"
C9_Witness ==
    /\ Len(gradeOut) >= 1
    /\ gradeIn = s4thGrade
    /\ gradeOut[1] = s4

(***************************************************************************)
(* Specification of the keyword extractor: a prompt is drawn and           *)
(* extract_keywords is applied to it.                                      *)
(***************************************************************************)
PromptAlphabet == {"a", "n", "d", "D", " ", ",", "."}

sHelpPrompt ==
    <<"H","e","l","p"," ","m","e"," ","p","r","a","c","t","i","c","e"," ","a","d","d","i","t",
      "i","o","n"," ","f","o","r"," ","g","r","a","d","e"," ","3">>
saddition == <<"a","d","d","i","t","i","o","n">>
spractice == <<"p","r","a","c","t","i","c","e">>
shelp == <<"h","e","l","p">>
sfor == <<"f","o","r">>

PromptExamples ==
    { sHelpPrompt,
      <<"a","d","d",".","D","a","d",",","a","n","d","\n","a","d","d","\t","a","d">>,
      <<"T","h","e"," ","E","A","S","Y"," ","w","o","r","k","s","h","e","e","t">> }

Prompts == StringsUpTo(PromptAlphabet, MaxPromptLen) \cup PromptExamples

KwInit ==
    /\ kwPrompt \in Prompts
    /\ kwResult = <<>>
    /\ kwPc = "start"
    /\ GradeIdle /\ CtxIdle /\ DocIdle /\ PipeIdle /\ GenIdle

\* extract_keywords(prompt)
ExtractKeywords ==
    /\ kwPc = "start"
    /\ kwResult' = extract_keywords(kwPrompt)
    /\ kwPc' = "done"
    /\ UNCHANGED <<kwPrompt, gradeVars, ctxVars, docVars, pipeVars, genVars>>

KwNext == ExtractKeywords

SpecKeywords == KwInit /\ [][KwNext]_vars

(***************************************************************************)
(* C10: extract_keywords returns exactly the tokens of the lower-cased      *)
(* prompt (maximal runs of characters that are neither whitespace nor a    *)
(* comma nor a period) that are not stopwords and are longer than 2, in    *)
(* the order in which they occur; for "Help me practice addition for grade *)
(* 3" the result contains "addition" and none of grade, practice, help,    *)
(* for.                                                                    *)
(***************************************************************************)
C10_KeywordsExact ==
    kwPc = "done" =>
        LET p == Lower(kwPrompt)
            IsSep(i) == p[i] \in WHITESPACE \cup {",", "."}
            starts == {i \in 1..Len(p) : ~IsSep(i) /\ (i = 1 \/ IsSep(i - 1))}
            EndOf(i) == CHOOSE j \in i..Len(p) :
                            /\ \A k \in i..j : ~IsSep(k)
                            /\ (j = Len(p) \/ IsSep(j + 1))
            Token(i) == SubSeq(p, i, EndOf(i))
            kept == {i \in starts : Token(i) \notin common_words /\ Len(Token(i)) > 2}
            Nth(k) == CHOOSE i \in kept : Cardinality({j \in kept : j < i}) = k - 1
            has(w) == \E k \in 1..Len(kwResult) : kwResult[k] = w
        IN  /\ Len(kwResult) = Cardinality(kept)
            /\ \A k \in 1..Len(kwResult) : kwResult[k] = Token(Nth(k))
            /\ \A k \in 1..Len(kwResult) :
                   kwResult[k] \notin common_words /\ Len(kwResult[k]) > 2
            /\ kwPrompt = sHelpPrompt =>
                   /\ has(saddition)
                   /\ ~has(sgrade) /\ ~has(spractice) /\ ~has(shelp) /\ ~has(sfor)

\* reached: the keywords of the example prompt have been extracted
C10_Witness ==
    /\ kwPc = "done"
    /\ kwPrompt = sHelpPrompt
    /\ kwResult = <<saddition>>

(***************************************************************************)
(* Specification of the context assembler: a curriculum directory, a       *)
(* subject and a grade are drawn; then either get_augmented_context is     *)
(* called with a prompt, or get_curriculum_context with a keyword list.    *)
(***************************************************************************)
smath == <<"m","a","t","h">>
sscience == <<"s","c","i","e","n","c","e">>
sFractions == <<"F","r","a","c","t","i","o","n","s">>
sDecimals == <<"D","e","c","i","m","a","l","s">>
sCounting == <<"C","o","u","n","t","i","n","g">>
sKCC1 == <<"K",".","C","C",".","1">>
sCountingOverview ==
    <<"C","o","u","n","t","i","n","g"," ","a","n","d"," ","n","u","m","b","e","r"," ","s","e",
      "n","s","e">>
sfraction == <<"f","r","a","c","t","i","o","n">>
sCountingTo10 == <<"c","o","u","n","t","i","n","g"," ","t","o"," ","1","0">>
sTheAndFor == <<"t","h","e"," ","a","n","d"," ","f","o","r">>
sSimpleWords == <<"s","i","m","p","l","e"," ","w","o","r","d","s">>
sOneStep == <<"o","n","e"," ","s","t","e","p">>
sDECIMALS_practice ==
    <<"D","E","C","I","M","A","L","S"," ","p","r","a","c","t","i","c","e">>

tFractions ==
    [name |-> sFractions,
     standards |-> << <<"4",".","N","F",".","1">>, <<"4",".","N","F",".","2">>,
                      <<"4",".","N","F",".","3">>, <<"4",".","N","F",".","4">> >>]

tDecimals == [name |-> sDecimals]

tCounting == [name |-> sCounting, standards |-> <<sKCC1>>]

tNameless == [standards |-> << <<"K",".","G",".","1">> >>]

TopicPool == {tFractions, tDecimals, tCounting, tNameless}

TopicLists == UNION {[1..n -> TopicPool] : n \in 0..MaxTopics}

\* a dict holding the keys of `keys` that `present` selects
SubDict(d, present) == [k \in (DOMAIN d) \cap present |-> d[k]]

GradeEntries ==
    { SubDict([overview |-> sCountingOverview, topics |-> ts,
               vocabulary_level |-> sSimpleWords, difficulty_guidelines |-> sOneStep],
              present) :
        ts \in TopicLists,
        present \in SUBSET {"overview", "topics", "vocabulary_level",
                            "difficulty_guidelines"} }

CurriculumDirs ==
    {EmptyDict, smath :> EmptyDict, smath :> [version |-> <<"1">>]}
        \cup {smath :> [grades |-> (sK :> e)] : e \in GradeEntries}

ContextGrades == {sK, <<" ","k"," ">>, s4thGrade}

ContextPrompts == {<<>>, sfraction, sCountingTo10, sTheAndFor, sDECIMALS_practice}

KeywordLists ==
    {<<>>, <<sfraction>>, <<<<"F","R","A","C","T">>>>,
     <<<<"x","y","z">>, <<"i","n","g">>>>}

CtxInit ==
    /\ curriculumFiles \in CurriculumDirs
    /\ ctxSubject \in {smath, sscience}
    /\ ctxGrade \in ContextGrades
    /\ ctxPrompt = <<>>
    /\ ctxKeywords = <<>>
    /\ ctxOut = <<>>
    /\ ctxPc = "start"
    /\ GradeIdle /\ KwIdle /\ DocIdle /\ PipeIdle /\ GenIdle

\* get_augmented_context(prompt, subject, grade)
AssembleContext ==
    /\ ctxPc = "start"
    /\ \E prompt \in ContextPrompts :
           /\ ctxPrompt' = prompt
           /\ ctxKeywords' = AugmentedKeywords(prompt)
           /\ ctxOut' = get_augmented_context(prompt, ctxSubject, ctxGrade)
    /\ ctxPc' = "done"
    /\ UNCHANGED <<curriculumFiles, ctxSubject, ctxGrade, gradeVars, kwVars, docVars,
                   pipeVars, genVars>>

\* get_curriculum_context(subject, grade, topic_keywords)
CurriculumContext ==
    /\ ctxPc = "start"
    /\ \E topic_keywords \in KeywordLists :
           /\ ctxKeywords' = topic_keywords
           /\ ctxOut' = get_curriculum_context(ctxSubject, ctxGrade, topic_keywords)
    /\ ctxPc' = "done"
    /\ UNCHANGED <<curriculumFiles, ctxSubject, ctxGrade, ctxPrompt, gradeVars, kwVars,
                   docVars, pipeVars, genVars>>

CtxNext == AssembleContext \/ CurriculumContext

SpecContext == CtxInit /\ [][CtxNext]_vars

\* the context returned, line by line
CtxLines == SplitOn(ctxOut, <<NL>>)

\* what a call has looked up: the subject's record, the normalized grade, the entry
CtxRecord == DictGet(curriculumFiles, Lower(ctxSubject), EmptyDict)

CtxNormalizedGrade == normalize_grade(ctxGrade)

CtxGradeTable == DictGet(CtxRecord, "grades", EmptyDict)

CtxHasEntry == CtxNormalizedGrade \in DOMAIN CtxGradeTable

CtxEntry == DictGet(CtxGradeTable, CtxNormalizedGrade, EmptyDict)

CtxTopics == DictGet(CtxEntry, "topics", <<>>)

TopicName(topic) == DictGet(topic, "name", <<>>)

\* the claim's filter: no keyword given, or some keyword is a substring of the
\* topic's name, letter case ignored
KeptByClaim(topic) ==
    \/ ctxKeywords = <<>>
    \/ \E i \in 1..Len(ctxKeywords) :
           Contains(Lower(TopicName(topic)), Lower(ctxKeywords[i]))

IsBulletLine(line) == StartsWith(line, sDash)

\* the topic names on the bullet lines of the context, in order
CtxBulletNames ==
    LET bullets == SelectSeq(CtxLines, IsBulletLine)
    IN  [i \in 1..Len(bullets) |-> SubSeq(bullets[i], Len(sDash) + 1, Len(bullets[i]))]

LineIndex(line) ==
    LET at == {i \in 1..Len(CtxLines) : CtxLines[i] = line}
    IN  IF at = {} THEN 0 ELSE CHOOSE i \in at : \A j \in at : i <= j

(***************************************************************************)
(* C5: topic filtering is inclusive.  When the grade entry found holds     *)
(* topics, the bullet lines of the context name exactly the topics for     *)
(* which no keyword was given or some keyword is a case-insensitive        *)
(* substring of the name, in curriculum order; a prompt yielding no        *)
(* keyword keeps every topic; keyword "fraction" over Fractions, Decimals  *)
(* keeps Fractions and drops Decimals.                                     *)
(***************************************************************************)
C5_TopicFilterInclusive ==
    (ctxPc = "done" /\ "topics" \in DOMAIN CtxEntry) =>
        LET kept == SelectSeq(CtxTopics, KeptByClaim)
        IN  /\ CtxBulletNames = [i \in 1..Len(kept) |-> TopicName(kept[i])]
            /\ \A i \in 1..Len(CtxTopics) :
                   KeptByClaim(CtxTopics[i]) <=>
                       \E j \in 1..Len(CtxBulletNames) :
                           CtxBulletNames[j] = TopicName(CtxTopics[i])
            /\ extract_keywords(ctxPrompt) = <<>> /\ ctxKeywords = <<>> =>
                   Len(CtxBulletNames) = Len(CtxTopics)
            /\ (ctxKeywords = <<sfraction>> /\ CtxTopics = <<tFractions, tDecimals>>) =>
                   CtxBulletNames = <<sFractions>>

\* reached: keyword "fraction" has filtered the topics Fractions, Decimals
C5_Witness ==
    /\ ctxPc = "done"
    /\ ctxPrompt = sfraction
    /\ ctxKeywords = <<sfraction>>
    /\ CtxTopics = <<tFractions, tDecimals>>
    /\ LineIndex(sDash \o sFractions) > 0
    /\ LineIndex(sDash \o sDecimals) = 0

\* the lines of a topic's standards that the claim allows: its first 3 at most
ClaimStandardLines(topic) ==
    LET standards == DictGet(topic, "standards", <<>>)
        n == IF Len(standards) < 3 THEN Len(standards) ELSE 3
    IN  [i \in 1..n |-> sStandardIndent \o standards[i]]

RECURSIVE ClaimTopicLines(_)
ClaimTopicLines(topics) ==
    IF topics = <<>> THEN <<>>
    ELSE <<sDash \o TopicName(topics[1])>> \o ClaimStandardLines(topics[1])
            \o ClaimTopicLines(Tail(topics))

\* the blocks of the claim, each as its lines, those whose field is absent
\* left out; the key-topics block is closed by a newline, hence its empty
\* last line
ClaimBlocks(entry) ==
    (IF "overview" \in DOMAIN entry
     THEN << <<sGRADE_ \o CtxNormalizedGrade \o <<" ","O","V","E","R","V","I","E","W",":">>,
               entry["overview"]>> >>
     ELSE <<>>)
    \o
    (IF "topics" \in DOMAIN entry
     THEN << <<<<"K","E","Y"," ","T","O","P","I","C","S",":">>>>
                \o ClaimTopicLines(SelectSeq(entry["topics"], KeptByClaim))
                \o << <<>> >> >>
     ELSE <<>>)
    \o
    (IF "vocabulary_level" \in DOMAIN entry
     THEN << <<sVOCABULARY_LEVEL \o entry["vocabulary_level"]>> >>
     ELSE <<>>)
    \o
    (IF "difficulty_guidelines" \in DOMAIN entry
     THEN << <<<<"D","I","F","F","I","C","U","L","T","Y"," ",
                 "G","U","I","D","E","L","I","N","E","S",":">>,
               entry["difficulty_guidelines"]>> >>
     ELSE <<>>)

\* blocks joined by one blank line; no block at all is the empty text, one
\* empty line
RECURSIVE BlankLineJoined(_)
BlankLineJoined(blocks) ==
    IF blocks = <<>> THEN << <<>> >>
    ELSE IF Len(blocks) = 1 THEN blocks[1]
    ELSE blocks[1] \o << <<>> >> \o BlankLineJoined(Tail(blocks))

\* the context is the claim's blocks in the claim's order; for the scenario
\* of the "K" entry the overview line, the bullet line of Counting and its
\* standard come in that order
ContextIsClaimBlocks ==
    /\ CtxLines = BlankLineJoined(ClaimBlocks(CtxEntry))
    /\ ( /\ DictGet(CtxEntry, "overview", <<>>) = sCountingOverview
         /\ CtxTopics = <<tCounting>>
         /\ ctxPrompt = sCountingTo10 /\ ctxKeywords = <<sCounting>> ) =>
            /\ 0 < LineIndex(sCountingOverview)
            /\ LineIndex(sCountingOverview) < LineIndex(sDash \o sCounting)
            /\ LineIndex(sDash \o sCounting) < LineIndex(sStandardIndent \o sKCC1)

(***************************************************************************)
(* C6 as claimed: whenever the subject has a record and the normalized     *)
(* grade has an entry, the context is the blocks grade overview, key       *)
(* topics, vocabulary level, difficulty guidelines, in that order, joined  *)
(* by a blank line, a block being present exactly when its field is.       *)
(***************************************************************************)
C6_Original_AnyEntry ==
    (ctxPc = "done" /\ ~IsEmptyDict(CtxRecord) /\ CtxHasEntry) => ContextIsClaimBlocks

(***************************************************************************)
(* C6 amended: the same, whenever the entry of the normalized grade holds  *)
(* at least one field (an entry holding none is answered like a missing    *)
(* one, with the fallback sentence).                                       *)
(***************************************************************************)
C6_BlocksInFixedOrder ==
    (ctxPc = "done" /\ ~IsEmptyDict(CtxRecord) /\ CtxHasEntry /\ ~IsEmptyDict(CtxEntry))
        => ContextIsClaimBlocks

\* reached: the "K" scenario, all four blocks assembled
C6_Witness ==
    /\ ctxPc = "done"
    /\ ctxPrompt = sCountingTo10
    /\ DOMAIN CtxEntry = {"overview", "topics", "vocabulary_level", "difficulty_guidelines"}
    /\ CtxTopics = <<tCounting>>
    /\ LineIndex(sCountingOverview) = 2
    /\ LineIndex(sDash \o sCounting) = 5
    /\ LineIndex(sStandardIndent \o sKCC1) = 6
    /\ LineIndex(sVOCABULARY_LEVEL \o sSimpleWords) > 6

sT == <<"T">>
s4answer == <<"4">>
s5answer == <<"5">>
sHARD == <<"H","A","R","D">>
stricky == <<"t","r","i","c","k","y">>
sToday ==
    <<"N","o","v","e","m","b","e","r"," ","0","4",","," ","2","0","2","6">>
sTwoParagraphs == <<"a", NL, NL, "b", " ", NL, NL, " ", NL, NL, "c">>
sBlankLines == <<" ", NL, NL, NL, " ">>

eOne == [problem |-> <<"1","+","1">>, solution |-> <<"a", NL, "2">>]
eNoSolution == [problem |-> <<"2","+","2">>]

qEasy == [question |-> <<"1","+","2">>, difficulty |-> seasy, answer |-> <<"3">>]
qHARD == [question |-> <<"2","x","3">>, difficulty |-> sHARD]
qTricky == [question |-> <<"3","-","1">>, difficulty |-> stricky]
qPlain == [question |-> <<"4","/","2">>]
qMedium == [question |-> <<"5","+","5">>, difficulty |-> <<"M","e","d","i","u","m">>]

sSpanish == <<"S","p","a","n","i","s","h">>
sEnglish == <<"E","n","g","l","i","s","h">>

\* the output languages a caller selects
Languages == {sEnglish, sSpanish}

\* the content of test_language_generation.py, lines 17-27
cSpanishTest ==
    [title |-> <<"P","r","u","e","b","a"," ","d","e"," ","M","a","t","e","m","a_ACUTE",
                 "t","i","c","a","s">>,
     explanation |-> <<"E","s","t","a"," ","e","s"," ","u","n","a"," ","e","x","p","l","i",
                       "c","a","c","i","o_ACUTE","n",".">>,
     worked_examples |-> <<[problem |-> <<"1","+","1">>, solution |-> <<"2">>]>>,
     practice_questions |->
         <<[question |-> <<"INVERTED_QUESTION_MARK","C","u","a_ACUTE","n","t","o"," ","e",
                           "s"," ","2","+","2","?">>,
            difficulty |-> seasy]>>,
     answer_key |-> <<s4answer>>]

Explanations ==
    StringsUpTo({"a", " ", NL}, MaxExplLen) \cup {sTwoParagraphs, sBlankLines}

\* the structured contents enumerated: every field may be missing
Contents ==
    { SubDict([title |-> sT, explanation |-> ex, worked_examples |-> we,
               practice_questions |-> pq, answer_key |-> ak],
              present) :
        ex \in Explanations,
        we \in {<<>>, <<eOne, eNoSolution>>},
        pq \in {<<>>, <<qEasy, qHARD>>, <<qTricky, qPlain, qMedium>>},
        ak \in {<<>>, <<s4answer>>, <<s4answer, s5answer>>},
        present \in SUBSET {"title", "explanation", "worked_examples",
                            "practice_questions", "answer_key"} }
        \cup {cSpanishTest}

DocInit ==
    /\ docContent \in Contents
    /\ docInclude \in BOOLEAN
    /\ docLanguage = <<>>
    /\ docOut = <<>>
    /\ docPc = "start"
    /\ GradeIdle /\ KwIdle /\ CtxIdle /\ PipeIdle /\ GenIdle

\* generate_pdf(content, subject, grade, include_answers) returns the bytes
Compose ==
    /\ docPc = "start"
    /\ docOut' = generate_pdf(docContent, smath, s4, docInclude, sToday)
    /\ docPc' = "done"
    /\ UNCHANGED <<docContent, docInclude, docLanguage, gradeVars, kwVars, ctxVars,
                   pipeVars, genVars>>

\* doc.build raises: nothing is returned
ComposeRaises ==
    /\ docPc = "start"
    /\ docOut' = <<>>
    /\ docPc' = "raised"
    /\ UNCHANGED <<docContent, docInclude, docLanguage, gradeVars, kwVars, ctxVars,
                   pipeVars, genVars>>

\* generate_pdf(content, subject, grade, language=L): Python binds the arguments
\* to the parameters before the body runs and raises TypeError on a keyword
\* that names no parameter
ComposeLocalized ==
    /\ docPc = "start"
    /\ \E language \in Languages :
          /\ docLanguage' = language
          /\ IF "language" \in generate_pdf_parameters
             THEN /\ docOut' = generate_pdf(docContent, smath, s4, TRUE, sToday)
                  /\ docPc' = "done"
             ELSE /\ docOut' = <<>>
                  /\ docPc' = "type_error"
    /\ UNCHANGED <<docContent, docInclude, gradeVars, kwVars, ctxVars, pipeVars,
                   genVars>>

DocNext == Compose \/ ComposeRaises \/ ComposeLocalized

SpecCompose == DocInit /\ [][DocNext]_vars

\* the flowables of the document returned
DocElements == Tail(docOut)

IsHeader(e) == e.kind = "Paragraph" /\ e.style = "SectionHeader"

\* where the header titled `text` stands in the document
HeaderAt(text) ==
    {i \in 1..Len(DocElements) : IsHeader(DocElements[i]) /\ DocElements[i].text = text}

FieldGiven(key) == key \in DOMAIN docContent /\ docContent[key] # <<>>

\* the numbered answer lines standing after position i
AnswerLines(i) ==
    LET body == [j \in 1..(Len(DocElements) - i) |-> DocElements[i + j]]
        IsLine(e) == e.kind = "Paragraph" /\ e.style = "CustomBodyText"
    IN  SelectSeq(body, IsLine)

\* C3: the answer-key section is in the document exactly when include_answers
\* is true and answer_key is not empty, whatever the other fields hold; when it
\* is there it opens with a page break, no section comes after it, and the
\* j-th numbered line carries number j and the j-th element of answer_key.
C3_AnswerKeyIff ==
    docPc = "done" =>
        LET wanted == docInclude /\ FieldGiven("answer_key")
            K == HeaderAt(sAnswerKey)
        IN  /\ (K # {}) <=> wanted
            /\ wanted =>
                 \E i \in K :
                    /\ K = {i}
                    /\ i > 1 /\ DocElements[i - 1].kind = "PageBreak"
                    /\ \A k \in (i + 1)..Len(DocElements) : ~IsHeader(DocElements[k])
                    /\ Len(AnswerLines(i)) = Len(docContent.answer_key)
                    /\ \A j \in 1..Len(docContent.answer_key) :
                          AnswerLines(i)[j].text =
                              <<"<","b",">">> \o NatToStr(j) \o <<".","<","/","b",">"," ">>
                                  \o docContent.answer_key[j]

C3_Witness ==
    /\ docPc = "done"
    /\ docInclude
    /\ "practice_questions" \in DOMAIN docContent
    /\ docContent.practice_questions = <<>>
    /\ FieldGiven("answer_key") /\ Len(docContent.answer_key) = 2
    /\ HeaderAt(sAnswerKey) # {}

\* the header each field is rendered under
SectionHeaderOf ==
    [explanation |-> sConceptExplanation, worked_examples |-> sWorkedExamples,
     practice_questions |-> sPracticeQuestions, answer_key |-> sAnswerKey]

IsBodyBlock(e) ==
    e.kind = "Paragraph" /\ e.style \in {"CustomBodyText", "Subsection", "Question"}

\* C4: a field that is missing or empty has no header in the document, and
\* every section header is followed, before the next header, by at least one
\* body block.
C4_NoEmptyShell ==
    docPc = "done" =>
        /\ \A key \in DOMAIN SectionHeaderOf :
              ~FieldGiven(key) => HeaderAt(SectionHeaderOf[key]) = {}
        /\ \A i \in 1..Len(DocElements) :
              IsHeader(DocElements[i]) =>
                 \E j \in (i + 1)..Len(DocElements) :
                    /\ IsBodyBlock(DocElements[j])
                    /\ \A k \in (i + 1)..j : ~IsHeader(DocElements[k])

\* an explanation of blanks only has been composed
C4_Witness ==
    /\ docPc = "done"
    /\ FieldGiven("explanation")
    /\ Strip(docContent.explanation) = <<>>
    /\ HeaderAt(sConceptExplanation) # {}

\* the question lines of the document, in order
QuestionLines ==
    LET IsQuestion(e) == e.kind = "Paragraph" /\ e.style = "Question"
    IN  SelectSeq(DocElements, IsQuestion)

\* the difficulty value of a question as the composer reads it
DifficultyOf(q) == IF "difficulty" \in DOMAIN q THEN q.difficulty ELSE <<"m","e","d","i","u","m">>

SameIgnoringCase(a, b) == Upper(a) = Upper(b)

\* the four presentation treatments: the colour of the difficulty tag
TreatmentOf(d) ==
    IF SameIgnoringCase(d, <<"e","a","s","y">>) THEN <<"#","1","0","B","9","8","1">>
    ELSE IF SameIgnoringCase(d, <<"m","e","d","i","u","m">>) THEN <<"#","F","5","9","E","0","B">>
    ELSE IF SameIgnoringCase(d, <<"h","a","r","d">>) THEN <<"#","E","F","4","4","4","4">>
    ELSE <<"#","6","B","7","2","8","0">>

\* C11: the tag of every practice question is coloured by case-insensitive match
\* of its difficulty: easy, medium and hard have three distinct colours and any
\* other value a fourth one; the questions are numbered from 1 in list order and
\* each question line is followed by the same blank space.
C11_DifficultyTreatments ==
    (docPc = "done" /\ FieldGiven("practice_questions")) =>
        LET pq == docContent.practice_questions
        IN  /\ Len(QuestionLines) = Len(pq)
            /\ \A j \in 1..Len(pq) :
                  QuestionLines[j].text =
                      <<"<","b",">">> \o NatToStr(j) \o <<".","<","/","b",">"," ">>
                          \o pq[j].question
                          \o <<" ","<","f","o","n","t"," ","c","o","l","o","r","=","'">>
                          \o TreatmentOf(DifficultyOf(pq[j]))
                          \o <<"'",">","[">> \o Upper(DifficultyOf(pq[j]))
                          \o <<"]","<","/","f","o","n","t",">">>
            /\ \A i \in 1..Len(DocElements) :
                  DocElements[i].style = "Question" =>
                     /\ i < Len(DocElements)
                     /\ DocElements[i + 1] = [kind |-> "Spacer", text |-> <<>>, style |-> "",
                                              height |-> 30]
            /\ Cardinality({sColorEasy, sColorMedium, sColorHard, sColorOther}) = 4

\* a question marked HARD has been composed, its tag in the colour of hard
C11_Witness ==
    /\ docPc = "done"
    /\ FieldGiven("practice_questions")
    /\ \E j \in 1..Len(docContent.practice_questions) :
          DifficultyOf(docContent.practice_questions[j]) = <<"H","A","R","D">>
    /\ \E j \in 1..Len(QuestionLines) :
          Contains(QuestionLines[j].text, <<"#","E","F","4","4","4","4","'",">","[","H","A","R","D","]">>)

\* C12: generate_pdf called with a structured content, a subject, a grade and a
\* language selection returns a non-empty byte sequence, for every supported
\* language.
C12_LocalizedComposeReturnsBytes ==
    (docLanguage # <<>> /\ docPc # "start") => (docPc = "done" /\ Len(docOut) > 0)

\* the call of the test has been made: its content, language="Spanish"
C12_Witness ==
    /\ docContent = cSpanishTest
    /\ docLanguage = <<"S","p","a","n","i","s","h">>
    /\ docPc # "start"

(***************************************************************************)
(* groq_client.py: generate_educational_content, and main.py: the          *)
(* generate-pdf handler with the stages it calls.                          *)
(***************************************************************************)
sWorksheet == <<" ","W","o","r","k","s","h","e","e","t">>
sFailed == <<"F","a","i","l","e","d">>
sFailedToGenerate ==
    <<"F","a","i","l","e","d"," ","t","o"," ","g","e","n","e","r","a","t","e"," ","c","o","n",
      "t","e","n","t",":"," ">>
sGenerationError == <<"G","e","n","e","r","a","t","i","o","n"," ","E","r","r","o","r">>
sPdfExt == <<".","p","d","f">>
sSubjectMustBe ==
    <<"S","u","b","j","e","c","t"," ","m","u","s","t"," ","b","e"," ","'","m","a","t","h","'",
      " ","o","r"," ","'","s","c","i","e","n","c","e","'">>
sContentGenerationFailed ==
    <<"C","o","n","t","e","n","t"," ","g","e","n","e","r","a","t","i","o","n"," ","f","a","i",
      "l","e","d",":"," ">>
sPdfGenerationFailed ==
    <<"P","D","F"," ","g","e","n","e","r","a","t","i","o","n"," ","f","a","i","l","e","d",":",
      " ">>
\* the message of the exception reportlab raises on markup it cannot parse
sSyntaxError ==
    <<"p","a","r","a","p","a","r","s","e","r",":"," ","s","y","n","t","a","x"," ","e","r","r",
      "o","r">>

sYouAreAnExpert ==
    <<"Y","o","u"," ","a","r","e"," ","a","n"," ","e","x","p","e","r","t"," ">>
sEducatorForGrade ==
    <<" ","e","d","u","c","a","t","o","r"," ","c","r","e","a","t","i","n","g"," ","c","o","n",
      "t","e","n","t"," ","f","o","r"," ","g","r","a","d","e"," ">>
sLanguageInstruction ==
    <<" ","s","t","u","d","e","n","t","s",".","\n"," "," "," "," ","\n","L","A","N","G","U","A",
      "G","E"," ","I","N","S","T","R","U","C","T","I","O","N",":"," ","G","e","n","e","r","a",
      "t","e"," ","A","L","L"," ","c","o","n","t","e","n","t"," ","i","n"," ">>
sCurriculumContextHeading ==
    <<".","\n","\n","C","U","R","R","I","C","U","L","U","M"," ","C","O","N","T","E","X","T",":",
      "\n">>
sOutputFormat ==
    <<"\n","\n","O","U","T","P","U","T"," ","F","O","R","M","A","T"," ","(","r","e","s","p","o",
      "n","d"," ","i","n"," ","t","h","i","s"," ","e","x","a","c","t"," ","J","S","O","N"," ",
      "s","t","r","u","c","t","u","r","e",")",":","\n","{","\n"," "," "," "," ","\"","t","i",
      "t","l","e","\"",":"," ","\"","C","l","e","a","r",","," ","d","e","s","c","r","i","p","t",
      "i","v","e"," ","t","i","t","l","e"," ","f","o","r"," ","t","h","e"," ","w","o","r","k",
      "s","h","e","e","t","\"",",","\n"," "," "," "," ","\"","e","x","p","l","a","n","a","t",
      "i","o","n","\"",":"," ","\"","C","l","e","a","r",","," ","a","g","e","-","a","p","p","r",
      "o","p","r","i","a","t","e"," ","e","x","p","l","a","n","a","t","i","o","n"," ","o","f",
      " ","t","h","e"," ","c","o","n","c","e","p","t"," ","(","2","-","3"," ","p","a","r","a",
      "g","r","a","p","h","s",")","\"",",","\n"," "," "," "," ","\"","w","o","r","k","e","d",
      "_","e","x","a","m","p","l","e","s","\"",":"," ","[","\n"," "," "," "," "," "," "," "," ",
      "{","\n"," "," "," "," "," "," "," "," "," "," "," "," ","\"","p","r","o","b","l","e","m",
      "\"",":"," ","\"","E","x","a","m","p","l","e"," ","p","r","o","b","l","e","m","\"",",",
      "\n"," "," "," "," "," "," "," "," "," "," "," "," ","\"","s","o","l","u","t","i","o","n",
      "\"",":"," ","\"","S","t","e","p","-","b","y","-","s","t","e","p"," ","s","o","l","u","t",
      "i","o","n","\"","\n"," "," "," "," "," "," "," "," ","}","\n"," "," "," "," ","]",",",
      "\n"," "," "," "," ","\"","p","r","a","c","t","i","c","e","_","q","u","e","s","t","i","o",
      "n","s","\"",":"," ","[","\n"," "," "," "," "," "," "," "," ","{","\n"," "," "," "," ",
      " "," "," "," "," "," "," "," ","\"","q","u","e","s","t","i","o","n","\"",":"," ","\"",
      "P","r","a","c","t","i","c","e"," ","q","u","e","s","t","i","o","n","\"",",","\n"," "," ",
      " "," "," "," "," "," "," "," "," "," ","\"","d","i","f","f","i","c","u","l","t","y","\"",
      ":"," ","\"","e","a","s","y","|","m","e","d","i","u","m","|","h","a","r","d","\"","\n",
      " "," "," "," "," "," "," "," ","}","\n"," "," "," "," ","]",",","\n"," "," "," "," ",
      "\"","a","n","s","w","e","r","_","k","e","y","\"",":"," ","[","\n"," "," "," "," "," ",
      " "," "," ","\"","A","n","s","w","e","r"," ","1","\"",",","\n"," "," "," "," "," "," ",
      " "," ","\"","A","n","s","w","e","r"," ","2","\"","\n"," "," "," "," ","]","\n","}","\n",
      "\n","G","U","I","D","E","L","I","N","E","S",":","\n","-"," ","U","s","e"," ","v","o","c",
      "a","b","u","l","a","r","y"," ","a","p","p","r","o","p","r","i","a","t","e"," ","f","o",
      "r"," ","g","r","a","d","e"," ">>
sGuidelinesRest ==
    <<"\n","-"," ","I","n","c","l","u","d","e"," ","2","-","3"," ","w","o","r","k","e","d"," ",
      "e","x","a","m","p","l","e","s"," ","w","i","t","h"," ","d","e","t","a","i","l","e","d",
      " ","s","t","e","p","s","\n","-"," ","P","r","o","v","i","d","e"," ","5","-","8"," ","p",
      "r","a","c","t","i","c","e"," ","q","u","e","s","t","i","o","n","s"," ","a","t"," ","v",
      "a","r","y","i","n","g"," ","d","i","f","f","i","c","u","l","t","y"," ","l","e","v","e",
      "l","s","\n","-"," ","K","e","e","p"," ","e","x","p","l","a","n","a","t","i","o","n","s",
      " ","e","n","g","a","g","i","n","g"," ","a","n","d"," ","c","l","e","a","r","\n","-"," ",
      "F","o","r"," ","m","a","t","h",":"," ","s","h","o","w"," ","a","l","l"," ","w","o","r",
      "k"," ","i","n"," ","s","o","l","u","t","i","o","n","s","\n","-"," ","F","o","r"," ","s",
      "c","i","e","n","c","e",":"," ","i","n","c","l","u","d","e"," ","r","e","a","l","-","w",
      "o","r","l","d"," ","c","o","n","n","e","c","t","i","o","n","s">>
sGenericContextSentence ==
    <<"U","s","e"," ","a","g","e","-","a","p","p","r","o","p","r","i","a","t","e"," ","c","o",
      "n","t","e","n","t"," ","f","o","r"," ","t","h","e"," ","s","p","e","c","i","f","i","e",
      "d"," ","g","r","a","d","e"," ","l","e","v","e","l",".">>
sCreateContentFor ==
    <<"C","r","e","a","t","e"," ","e","d","u","c","a","t","i","o","n","a","l"," ","c","o","n",
      "t","e","n","t"," ","f","o","r",":"," ">>
sGenerateAllContentIn ==
    <<"G","e","n","e","r","a","t","e"," ","A","L","L"," ","c","o","n","t","e","n","t"," ","i",
      "n"," ">>

\* lines 41-76 with the language instruction fixed to English
SystemPrompt_EnglishOnly(subject, grade, language, curriculum_context) ==
    sYouAreAnExpert \o subject \o sEducatorForGrade \o grade \o sLanguageInstruction
        \o <<"E","n","g","l","i","s","h">> \o sCurriculumContextHeading
        \o (IF curriculum_context # <<>> THEN curriculum_context
            ELSE sGenericContextSentence)
        \o sOutputFormat \o grade \o sGuidelinesRest

\* groq_client.py lines 41-76: system_prompt
SystemPrompt(subject, grade, language, curriculum_context) ==
    sYouAreAnExpert \o subject \o sEducatorForGrade \o grade \o sLanguageInstruction
        \o language \o sCurriculumContextHeading
        \o (IF curriculum_context # <<>> THEN curriculum_context
            ELSE sGenericContextSentence)
        \o sOutputFormat \o grade \o sGuidelinesRest

\* groq_client.py line 78: user_message
UserMessage(prompt) == sCreateContentFor \o prompt

\* groq_client.py lines 82-92: the request of client.chat.completions.create
ChatRequest(prompt, subject, grade, language, curriculum_context) ==
    [messages |-> <<[role |-> "system",
                     content |-> SystemPrompt(subject, grade, language,
                                              curriculum_context)],
                    [role |-> "user", content |-> UserMessage(prompt)]>>,
     model |-> "llama-3.3-70b-versatile",
     temperature |-> "0.7",
     max_tokens |-> 4000,
     response_format |-> [type |-> "json_object"]]

\* groq_client.py lines 98-106: the structure returned when the try block raised e
ErrorStructure(e) ==
    [error |-> e, title |-> sGenerationError, explanation |-> sFailedToGenerate \o e,
     worked_examples |-> <<>>, practice_questions |-> <<>>, answer_key |-> <<>>]

\* groq_client.py lines 81-106.  completion is what the try block came to: an
\* exception e, or the JSON object the model answered with.
generate_educational_content(completion) ==
    IF completion.raised THEN ErrorStructure(completion.e) ELSE completion.json

\* main.py line 117
ValidSubject(subject) == Lower(subject) \in {smath, sscience}

\* main.py line 139 never taking the branch
IsGenerationFailure_Never(c) == FALSE

\* main.py line 139
IsGenerationFailure(c) ==
    "error" \in DOMAIN c /\ StartsWith(DictGet(c, "explanation", <<>>), sFailed)

\* main.py line 154: str(uuid.uuid4())[:8]
PdfId(uuid) == Take(uuid, 8)

\* main.py line 155
ResponseTitle(c, subject) == DictGet(c, "title", Title(subject) \o sWorksheet)

IsSafeChar(ch) == IsAlnum(ch) \/ ch \in {" ", "-", "_"}

\* main.py line 156
SafeTitle(title) == Strip(SelectSeq(title, IsSafeChar))

\* main.py line 157
Filename(safe_title, pdf_id) == safe_title \o <<"_">> \o pdf_id \o sPdfExt

\* pdf_generator.py lines 229-237: the directory after the file is written
save_pdf(dir, pdf_bytes, filename) ==
    LET name == IF EndsWith(filename, sPdfExt) THEN filename ELSE filename \o sPdfExt
    IN  [f \in (DOMAIN dir) \cup {name} |-> IF f = name THEN pdf_bytes ELSE dir[f]]

HTTPException(status_code, detail) == [status_code |-> status_code, detail |-> detail]

\* main.py lines 164-174, without the encoded copy of the bytes and the time
GeneratePDFResponse(pdf_id, filename, title, req) ==
    [status_code |-> 200, success |-> TRUE, pdf_id |-> pdf_id, filename |-> filename,
     title |-> title, subject |-> req.subject, grade |-> req.grade]

\* one stage called by the handler
Call(fn, arg, raised, ret) == [fn |-> fn, arg |-> arg, raised |-> raised, ret |-> ret]

\* main.py lines 124-128: step 1, the context retrieved for the request
CurriculumContextOf(req) ==
    get_augmented_context(req.prompt, Lower(req.subject), req.grade)

\* main.py lines 115-182: what one request comes to.  curriculum_context is the
\* result of step 1, completion the outcome of the model call, build_raises says
\* whether laying the document out raises, uuid is the identifier drawn.
Handle(req, curriculum_context, completion, build_raises, uuid, dir) ==
    LET c == generate_educational_content(completion)
        stage1 == Call("get_augmented_context", req.prompt, FALSE, curriculum_context)
        stage2 == Call("generate_educational_content", curriculum_context,
                       completion.raised, c)
        pdf_bytes == generate_pdf(c, req.subject, req.grade, req.include_answers, sToday)
        pdf_id == PdfId(uuid)
        title == ResponseTitle(c, req.subject)
        filename == Filename(SafeTitle(title), pdf_id)
    IN  IF ~ValidSubject(req.subject)
        THEN [generated |-> <<>>, calls |-> <<>>, storage |-> dir,
              response |-> HTTPException(400, sSubjectMustBe)]
        ELSE IF IsGenerationFailure(c)
        THEN [generated |-> c, calls |-> <<stage1, stage2>>, storage |-> dir,
              response |-> HTTPException(500, sContentGenerationFailed \o c.error)]
        ELSE IF build_raises
        THEN [generated |-> c,
              calls |-> <<stage1, stage2, Call("generate_pdf", c, TRUE, <<>>)>>,
              storage |-> dir,
              response |-> HTTPException(500, sPdfGenerationFailed \o sSyntaxError)]
        ELSE [generated |-> c,
              calls |-> <<stage1, stage2, Call("generate_pdf", c, FALSE, pdf_bytes),
                          Call("save_pdf", [pdf_bytes |-> pdf_bytes, filename |-> filename],
                               FALSE, filename)>>,
              storage |-> save_pdf(dir, pdf_bytes, filename),
              response |-> GeneratePDFResponse(pdf_id, filename, title, req)]

(***************************************************************************)
(* Specification of the service: generate-pdf requests are handled one     *)
(* after the other (the handler never awaits), each against the store the  *)
(* earlier ones left.                                                      *)
(***************************************************************************)
sUuid1 ==
    <<"3","f","2","a","9","c","1","e","-","7","b","6","4","-","4","d","0","a","-","9","e","5",
      "5","-","0","c","1","d","2","e","3","f","4","a","5","b">>
sUuid2 ==
    <<"b","8","1","d","0","4","f","7","-","2","2","a","a","-","4","c","3","e","-","8","f","1",
      "0","-","6","a","7","b","8","c","9","d","0","e","1","f">>
sTimeout == <<"R","e","q","u","e","s","t"," ","t","i","m","e","d"," ","o","u","t",".">>
sMath == <<"M","a","t","h">>
sart == <<"a","r","t">>
sAddingFractions == <<"A","d","d","i","n","g"," ","1","/","2"," ","+"," ","1","/","4","!">>
sRateLimited == <<"r","a","t","e"," ","l","i","m","i","t","e","d">>
sFractionsAreParts ==
    <<"F","r","a","c","t","i","o","n","s"," ","a","r","e"," ","p","a","r","t","s"," ","o","f",
      " ","a"," ","w","h","o","l","e",".">>
sFailedAttempts ==
    <<"F","a","i","l","e","d"," ","a","t","t","e","m","p","t","s"," ","t","e","a","c","h"," ",
      "u","s",".">>

\* a worksheet as the model is asked to write it
cWorksheet ==
    [title |-> sAddingFractions, explanation |-> sFractionsAreParts,
     worked_examples |-> <<eOne>>, practice_questions |-> <<qEasy, qHARD>>,
     answer_key |-> <<s4answer, s5answer>>]

\* answers of the model that carry an error field
cErrorWithLesson == [error |-> sRateLimited, explanation |-> sFractionsAreParts]

cErrorFailedLesson == [error |-> sRateLimited, explanation |-> sFailedAttempts]

cErrorOnly == [error |-> sRateLimited]

Completions ==
    {[raised |-> TRUE, e |-> sTimeout, json |-> <<>>]}
        \cup {[raised |-> FALSE, e |-> <<>>, json |-> j] :
                 j \in {cWorksheet, cErrorWithLesson, cErrorFailedLesson, cErrorOnly}}

Requests ==
    {[prompt |-> sfraction, subject |-> su, grade |-> s4, include_answers |-> inc] :
        su \in {sMath, sart}, inc \in BOOLEAN}

Uuids == {sUuid1, sUuid2}

PipelineCurriculum ==
    smath :> [grades |-> (s4 :> [overview |-> sCountingOverview,
                                  topics |-> <<tFractions, tDecimals>>])]

Init ==
    /\ storage = <<>>
    /\ request = <<>>
    /\ generated = <<>>
    /\ calls = <<>>
    /\ response = <<>>
    /\ curriculumFiles \in {EmptyDict, PipelineCurriculum}
    /\ ctxSubject = <<>> /\ ctxGrade = <<>> /\ ctxPrompt = <<>> /\ ctxKeywords = <<>>
    /\ ctxOut = <<>> /\ ctxPc = "idle"
    /\ GradeIdle /\ KwIdle /\ DocIdle /\ GenIdle

\* POST /api/generate-pdf, the request drawn from Reqs, the outcome of the model
\* call from Comps, that of the layout from Raises
GeneratePdfFrom(Reqs, Comps, Raises) ==
    /\ Cardinality(DOMAIN storage) < MaxFiles
    /\ \E req \in Reqs :
          LET curriculum_context == CurriculumContextOf(req)
          IN  \E completion \in Comps, build_raises \in Raises, uuid \in Uuids :
                 LET h == Handle(req, curriculum_context, completion, build_raises, uuid,
                                 storage)
                 IN  /\ request' = req
                     /\ generated' = h.generated
                     /\ calls' = h.calls
                     /\ storage' = h.storage
                     /\ response' = h.response
    /\ UNCHANGED <<gradeVars, kwVars, ctxVars, docVars, genVars>>

generate_pdf_endpoint == GeneratePdfFrom(Requests, Completions, BOOLEAN)

Next == generate_pdf_endpoint

Spec == Init /\ [][Next]_vars

Handled == DOMAIN response # {}

\* the stages called for the last request, by name
CalledStages == [i \in 1..Len(calls) |-> calls[i].fn]

\* C1: whenever the content returned by the generation adapter carries an
\* error field, whatever its explanation holds, the request fails, and neither
\* the composer nor the store is called.
C1_ErrorFieldShortCircuits ==
    (Handled /\ "error" \in DOMAIN generated) =>
        /\ response.status_code # 200
        /\ \A i \in 1..Len(calls) : calls[i].fn \notin {"generate_pdf", "save_pdf"}

\* C1, what holds of it: when the adapter's call raised, or the content has an
\* error field and an explanation starting with "Failed", the request fails with
\* status 500 after the context and generation stages, nothing composed or saved.
C1_AdapterSentinelShortCircuits ==
    (Handled /\ Len(calls) >= 2 /\
        (calls[2].raised \/ ("error" \in DOMAIN generated /\
            StartsWith(DictGet(generated, "explanation", <<>>), <<"F","a","i","l","e","d">>))))
    =>  /\ response.status_code = 500
        /\ CalledStages = <<"get_augmented_context", "generate_educational_content">>

\* a content with an error field has been composed and saved
C1_Witness ==
    /\ Handled
    /\ "error" \in DOMAIN generated
    /\ response.status_code = 200
    /\ response.filename \in DOMAIN storage

StageOrder ==
    <<"get_augmented_context", "generate_educational_content", "generate_pdf", "save_pdf">>

\* the stages run in pipeline order, each fed by the one before it; the save
\* stage is reached only with the bytes a composition returned
PipelineInOrder ==
    /\ Len(calls) <= Len(StageOrder)
    /\ \A i \in 1..Len(calls) : calls[i].fn = StageOrder[i]
    /\ Len(calls) >= 2 => calls[2].arg = calls[1].ret
    /\ Len(calls) >= 3 => calls[3].arg = calls[2].ret
    /\ Len(calls) = 4 =>
          /\ ~calls[3].raised
          /\ Len(calls[3].ret) > 0
          /\ calls[4].arg.pdf_bytes = calls[3].ret
          /\ calls[4].ret \in DOMAIN storage
          /\ storage[calls[4].ret] = calls[3].ret

\* a failed stage ends the request with an error answer, nothing called after it
FailuresAnswered ==
    Handled =>
        /\ ~ValidSubject(request.subject) => response.status_code = 400 /\ calls = <<>>
        /\ (Len(calls) >= 2 /\ calls[2].raised) =>
              response.status_code = 500 /\ Len(calls) = 2
        /\ (Len(calls) >= 3 /\ calls[3].raised) =>
              response.status_code = 500 /\ Len(calls) = 3
        /\ response.status_code = 200 <=> Len(calls) = 4

\* a request answered with an error leaves the store as it was, and the store
\* changes only by the file the save stage wrote
StoreStep ==
    /\ response'.status_code # 200 => storage' = storage
    /\ storage' # storage =>
          /\ Len(calls') = 4
          /\ DOMAIN storage' = DOMAIN storage \cup {calls'[4].ret}
          /\ \A f \in DOMAIN storage : f # calls'[4].ret => storage'[f] = storage[f]

sNoApiKey == <<"n","o"," ","a","p","i"," ","k","e","y">>
sGrade4Context == <<"G","R","A","D","E"," ","4"," ","O","V","E","R","V","I","E","W",":">>

\* the keyword arguments a caller may leave out: language, curriculum_context
AdapterCalls ==
    { SubDict([prompt |-> p, subject |-> su, grade |-> g, language |-> l,
               curriculum_context |-> cc],
              {"prompt", "subject", "grade"} \cup opt) :
        p \in {saddition, sfraction},
        su \in {smath, sscience},
        g \in {s4, sK},
        l \in {sEnglish, sSpanish, <<>>},
        cc \in {<<>>, sGrade4Context},
        opt \in SUBSET {"language", "curriculum_context"} }

\* groq_client.py lines 24-25: the defaults of the parameters
LanguageOf(args) == DictGet(args, "language", sEnglish)

CurriculumContextArg(args) == DictGet(args, "curriculum_context", <<>>)

GenInit ==
    /\ genArgs \in AdapterCalls
    /\ genRequests = <<>>
    /\ genOut = <<>>
    /\ genPc = "start"
    /\ GradeIdle /\ KwIdle /\ CtxIdle /\ DocIdle /\ PipeIdle

\* get_groq_client() raises (line 82): no request is sent
ClientUnavailable ==
    /\ genPc = "start"
    /\ genRequests' = <<>>
    /\ genOut' = ErrorStructure(sNoApiKey)
    /\ genPc' = "done"
    /\ UNCHANGED <<genArgs, gradeVars, kwVars, ctxVars, docVars, pipeVars>>

\* lines 82-106 with a client: one request is sent; it raises, or is answered
GenerateContent ==
    /\ genPc = "start"
    /\ \E completion \in Completions :
          /\ genRequests' =
                <<ChatRequest(genArgs.prompt, genArgs.subject, genArgs.grade,
                              LanguageOf(genArgs), CurriculumContextArg(genArgs))>>
          /\ genOut' = generate_educational_content(completion)
    /\ genPc' = "done"
    /\ UNCHANGED <<genArgs, gradeVars, kwVars, ctxVars, docVars, pipeVars>>

GenNext == ClientUnavailable \/ GenerateContent

SpecAdapter == GenInit /\ [][GenNext]_vars

\* the language the call asks for: the argument, English when none is passed
AskedLanguage ==
    IF "language" \in DOMAIN genArgs THEN genArgs.language
    ELSE <<"E","n","g","l","i","s","h">>

NoGrounding ==
    "curriculum_context" \notin DOMAIN genArgs \/ genArgs.curriculum_context = <<>>

\* C13: at most one request is sent per call, and the system message of a
\* request sent holds "Generate ALL content in L" for the language L asked for
\* (English when none is passed); when the grounding context is the empty
\* string, the generic age-appropriate-content sentence stands in its place
\* under the heading, otherwise the context itself does.
C13_SystemMessage ==
    genPc = "done" =>
        /\ Len(genRequests) <= 1
        /\ \A i \in 1..Len(genRequests) :
              LET system == genRequests[i].messages[1]
                  heading == <<"C","U","R","R","I","C","U","L","U","M"," ","C","O","N","T","E",
                               "X","T",":", NL>>
              IN  /\ system.role = "system"
                  /\ Contains(system.content,
                              <<"G","e","n","e","r","a","t","e"," ","A","L","L"," ","c","o",
                                "n","t","e","n","t"," ","i","n"," ">> \o AskedLanguage)
                  /\ IF NoGrounding
                     THEN Contains(system.content,
                                   heading \o sGenericContextSentence \o <<NL, NL>>)
                     ELSE Contains(system.content,
                                   heading \o genArgs.curriculum_context \o <<NL, NL>>)

\* a request has been sent for Spanish content without grounding
C13_Witness ==
    /\ genPc = "done"
    /\ Len(genRequests) = 1
    /\ "language" \in DOMAIN genArgs /\ genArgs.language = <<"S","p","a","n","i","s","h">>
    /\ NoGrounding
    /\ "error" \notin DOMAIN genOut

(***************************************************************************)
(* main.py: get_pdf, get_pdf_base64, delete_pdf, and the specification of  *)
(* the artifact store: generate-pdf, get and delete requests in any order. *)
(* os.listdir returns the names in arbitrary order, so the file a scan     *)
(* stops at is any of those that match.                                    *)
(***************************************************************************)
sPdfNotFound == <<"P","D","F"," ","n","o","t"," ","f","o","u","n","d">>
sPDF_ == <<"P","D","F"," ">>
s_deleted == <<" ","d","e","l","e","t","e","d">>
sNeverIssued == <<"0","0","0","0","d","e","a","d">>

\* main.py lines 215, 234, 254: the stored names the scan accepts for pdf_id
Matching(dir, pdf_id) ==
    {filename \in DOMAIN dir : Contains(filename, pdf_id) /\ EndsWith(filename, sPdfExt)}

\* base64.b64encode(pdf_bytes).decode('utf-8')
B64Encode(pdf_bytes) == [encoding |-> "base64", of |-> pdf_bytes]

\* the directory after os.remove(filepath)
Remove(dir, filename) == [f \in (DOMAIN dir) \ {filename} |-> dir[f]]

\* the path parameter of the requests made: the ids issued, a word of a title,
\* and an id no request was given
LookupIds == {PdfId(u) : u \in Uuids} \cup {sMath, sNeverIssued}

\* GET /api/pdfs/{pdf_id}
get_pdf ==
    /\ \E pdf_id \in LookupIds :
          /\ request' = [op |-> "get_pdf", pdf_id |-> pdf_id]
          /\ IF Matching(storage, pdf_id) = {}
             THEN response' = HTTPException(404, sPdfNotFound)
             ELSE \E filename \in Matching(storage, pdf_id) :
                     response' = [status_code |-> 200, content |-> storage[filename],
                                  media_type |-> "application/pdf", filename |-> filename]
    /\ generated' = <<>>
    /\ calls' = <<>>
    /\ UNCHANGED <<storage, gradeVars, kwVars, ctxVars, docVars, genVars>>

\* GET /api/pdfs/{pdf_id}/base64
get_pdf_base64 ==
    /\ \E pdf_id \in LookupIds :
          /\ request' = [op |-> "get_pdf_base64", pdf_id |-> pdf_id]
          /\ IF Matching(storage, pdf_id) = {}
             THEN response' = HTTPException(404, sPdfNotFound)
             ELSE \E filename \in Matching(storage, pdf_id) :
                     response' = [status_code |-> 200, pdf_id |-> pdf_id,
                                  filename |-> filename,
                                  pdf_base64 |-> B64Encode(storage[filename]),
                                  file_size_bytes |-> Len(storage[filename])]
    /\ generated' = <<>>
    /\ calls' = <<>>
    /\ UNCHANGED <<storage, gradeVars, kwVars, ctxVars, docVars, genVars>>

\* DELETE /api/pdfs/{pdf_id}
delete_pdf ==
    /\ \E pdf_id \in LookupIds :
          /\ request' = [op |-> "delete_pdf", pdf_id |-> pdf_id]
          /\ IF Matching(storage, pdf_id) = {}
             THEN /\ response' = HTTPException(404, sPdfNotFound)
                  /\ storage' = storage
             ELSE \E filename \in Matching(storage, pdf_id) :
                     /\ storage' = Remove(storage, filename)
                     /\ response' = [status_code |-> 200, success |-> TRUE,
                                     message |-> sPDF_ \o pdf_id \o s_deleted]
    /\ generated' = <<>>
    /\ calls' = <<>>
    /\ UNCHANGED <<gradeVars, kwVars, ctxVars, docVars, genVars>>

\* a short worksheet, so that the stored documents stay small
cShortWorksheet == [title |-> sFractions, answer_key |-> <<s4answer>>]

StoreRequests ==
    {[prompt |-> sfraction, subject |-> sMath, grade |-> s4, include_answers |-> inc] :
        inc \in BOOLEAN}

StoreCompletions ==
    {[raised |-> FALSE, e |-> <<>>, json |-> j] : j \in {cShortWorksheet, cErrorOnly}}

StoreGenerate == GeneratePdfFrom(StoreRequests, StoreCompletions, {FALSE})

StoreInit ==
    /\ storage = <<>>
    /\ request = <<>>
    /\ generated = <<>>
    /\ calls = <<>>
    /\ response = <<>>
    /\ curriculumFiles = EmptyDict
    /\ ctxSubject = <<>> /\ ctxGrade = <<>> /\ ctxPrompt = <<>> /\ ctxKeywords = <<>>
    /\ ctxOut = <<>> /\ ctxPc = "idle"
    /\ GradeIdle /\ KwIdle /\ DocIdle /\ GenIdle

StoreNext == StoreGenerate \/ get_pdf \/ get_pdf_base64 \/ delete_pdf

SpecStore == StoreInit /\ [][StoreNext]_vars

(***************************************************************************)
(* The link between an artifact id and its bytes.                          *)
(***************************************************************************)
\* position of the last "_" of a name, 0 when it has none
LastUnderscore(filename) ==
    LET at == {i \in 1..Len(filename) : filename[i] = "_"}
    IN  IF at = {} THEN 0 ELSE CHOOSE i \in at : \A j \in at : j <= i

\* main.py, list_pdfs: the id a stored name carries,
\* filename.rsplit('_', 1)[1].replace('.pdf', ''), the whole name when it has no "_"
IdOf(filename) ==
    IF LastUnderscore(filename) = 0
    THEN filename
    ELSE Replace(SubSeq(filename, LastUnderscore(filename) + 1, Len(filename)),
                 sPdfExt, <<>>)

\* the stored files of the artifact pdf_id
FilesOfId(dir, pdf_id) == {filename \in DOMAIN dir : IdOf(filename) = pdf_id}

IsLookup(req) == "pdf_id" \in DOMAIN req

\* the bytes a get or base64 get answered with
BytesReturned(req, resp) ==
    IF req.op = "get_pdf" THEN resp.content ELSE resp.pdf_base64.of

\* one get, base64 get or delete request, judged against the store it found
LookupIsSound ==
    IsLookup(request') =>
        LET pdf_id == request'.pdf_id
            mine == FilesOfId(storage, pdf_id)
        IN  IF mine = {}
            THEN response'.status_code = 404 /\ storage' = storage
            ELSE /\ response'.status_code = 200
                 /\ IF request'.op = "delete_pdf"
                    THEN /\ DOMAIN storage' = (DOMAIN storage) \ mine
                         /\ \A f \in DOMAIN storage' : storage'[f] = storage[f]
                         /\ Cardinality(mine) = 1
                    ELSE /\ storage' = storage
                         /\ response'.filename \in mine
                         /\ \A f \in mine : BytesReturned(request', response') = storage[f]

\* C14: after any sequence of generate-pdf, get and delete requests, a get or
\* base64 get for the id of a stored artifact returns the bytes stored under that
\* id, a delete for it removes that artifact's file and no other, and a get or
\* delete for an id that no stored file carries returns 404 and leaves the store
\* unchanged.
C14_FilenameLinkSound == [][LookupIsSound]_vars

\* the scan picks out the files of the id and nothing else
Unambiguous(dir, pdf_id) ==
    /\ Matching(dir, pdf_id) = FilesOfId(dir, pdf_id)
    /\ Cardinality(FilesOfId(dir, pdf_id)) <= 1

\* C14, as far as the code goes: the link is sound for a request whose path
\* parameter is contained in no stored name other than the one file that carries
\* it as its id.
C14_SoundWhenUnambiguous ==
    [][(IsLookup(request') /\ Unambiguous(storage, request'.pdf_id)) => LookupIsSound]_vars

\* a delete by an issued id, answered 200, with another artifact left in the store
C14_Witness ==
    /\ IsLookup(request)
    /\ request.op = "delete_pdf"
    /\ request.pdf_id \in {PdfId(u) : u \in Uuids}
    /\ response.status_code = 200
    /\ DOMAIN storage # {}

=============================================================================
